---- MODULE Spec2Model ----
(***************************************************************************)
(* A model of the line-based parser and the tree-walking evaluator of the  *)
(* interpreter in src/main.rs.  Source text is a sequence of characters    *)
(* (one-character strings); the regular expressions of the parser are      *)
(* scanners over such sequences; the evaluator is a machine with an        *)
(* explicit stack of frames, one frame per active call of evaluate.        *)
(***************************************************************************)
EXTENDS Integers, Sequences, FiniteSets, TLC

VARIABLES
    code,        \* the script handed to parse (main.rs:200, 216)
    lines,       \* parse: lines (main.rs:45)
    i,           \* parse: the line cursor i, 0-based (main.rs:46)
    statements,  \* parse: statements (main.rs:35), returned at main.rs:109
    phase,       \* where the run is: "start", "parse", "eval", "done", "fatal"
    stack,       \* the active calls of evaluate, outermost first: for each the
                 \* sequence it iterates over and the position of its for loop
    variables,   \* Interpreter.variables (main.rs:24)
    output,      \* the lines written to stdout, without their newline
    fatal,       \* the panic that ended the run, "none" while there is none
    hist         \* history: one event per statement evaluate has executed

vars == <<code, lines, i, statements, phase, stack, variables, output, fatal, hist>>

----------------------------------------------------------------------------
(* Bounds of the model.                                                    *)

\* Width in bits of the integer type (i64 in the source, scaled down).
IntBits == 6
\* Longest block body, in lines, of a generated program.
MaxBody == 2
\* Longest free sequence of top-level lines of a generated program.
MaxTop == 2
\* Most statements one evaluation executes before the model stops following it.
MaxSteps == 14

RECURSIVE Pow2(_)
Pow2(n) == IF n = 0 THEN 1 ELSE 2 * Pow2(n - 1)

MaxInt == Pow2(IntBits - 1) - 1
MinInt == 0 - Pow2(IntBits - 1)

----------------------------------------------------------------------------
(* Characters and character sequences.                                     *)

Digits == <<"0", "1", "2", "3", "4", "5", "6", "7", "8", "9">>
DigitSet == {Digits[k] : k \in 1..10}
DigitVal(c) == (CHOOSE k \in 1..10 : Digits[k] = c) - 1

Letters == {"a", "b", "c", "d", "e", "f", "g", "h", "i", "j", "k", "l", "m",
            "n", "o", "p", "q", "r", "s", "t", "u", "v", "w", "x", "y", "z",
            "A", "B", "C", "D", "E", "F", "G", "H", "I", "J", "K", "L", "M",
            "N", "O", "P", "Q", "R", "S", "T", "U", "V", "W", "X", "Y", "Z"}
\* \w of the regex crate, on the characters the model uses.
WordChars == Letters \cup DigitSet \cup {"_"}
\* What str::trim removes.
WhiteSpace == {" ", "\t", "\r", "\n"}

Take(s, n) == SubSeq(s, 1, n)
Drop(s, n) == SubSeq(s, n + 1, Len(s))
IsPrefix(p, s) == Len(p) <= Len(s) /\ Take(s, Len(p)) = p

\* Length of the longest prefix of s made of characters of C.
RECURSIVE SpanLen(_, _)
SpanLen(s, C) ==
    IF s = <<>> \/ Head(s) \notin C THEN 0 ELSE 1 + SpanLen(Tail(s), C)

\* Length of the longest suffix of s made of characters of C.
RECURSIVE SpanLenBack(_, _)
SpanLenBack(s, C) ==
    IF s = <<>> \/ s[Len(s)] \notin C THEN 0
    ELSE 1 + SpanLenBack(Take(s, Len(s) - 1), C)

\* str::trim
Trim(s) ==
    LET a == SpanLen(s, WhiteSpace)
        t == Drop(s, a)
    IN  Take(t, Len(t) - SpanLenBack(t, WhiteSpace))

\* Length of the longest prefix of s that does not hold the character c.
RECURSIVE UntilLen(_, _)
UntilLen(s, c) ==
    IF s = <<>> \/ Head(s) = c THEN 0 ELSE 1 + UntilLen(Tail(s), c)

\* str::split(sep) for a one-character separator: always at least one piece.
RECURSIVE Split(_, _)
Split(s, sep) ==
    LET n == UntilLen(s, sep)
    IN  IF n = Len(s) THEN <<s>>
        ELSE <<Take(s, n)>> \o Split(Drop(s, n + 1), sep)

\* str::lines: split at "\n", a final empty piece dropped, a trailing "\r" of
\* each line dropped.
StripCr(s) == IF s # <<>> /\ s[Len(s)] = "\r" THEN Take(s, Len(s) - 1) ELSE s
Lines(text) ==
    LET parts == Split(text, "\n")
        kept == IF parts[Len(parts)] = <<>> THEN Take(parts, Len(parts) - 1) ELSE parts
    IN  [k \in 1..Len(kept) |-> StripCr(kept[k])]

----------------------------------------------------------------------------
(* Integers of IntBits bits: formatting and parsing.                       *)

\* Display for an unsigned value: decimal digits, no leading zero.
RECURSIVE FormatNat(_)
FormatNat(n) ==
    IF n < 10 THEN <<Digits[n + 1]>> ELSE FormatNat(n \div 10) \o <<Digits[(n % 10) + 1]>>

\* Display for i64.
Format(n) == IF n < 0 THEN <<"-">> \o FormatNat(0 - n) ELSE FormatNat(n)

\* Value of a digit string read left to right with sign sg; not ok as soon as
\* a step leaves the range (checked_mul, checked_add / checked_sub).
RECURSIVE Accumulate(_, _, _)
Accumulate(ds, acc, sg) ==
    IF ds = <<>> THEN [ok |-> TRUE, val |-> acc]
    ELSE LET next == acc * 10 + sg * DigitVal(Head(ds))
         IN  IF next > MaxInt \/ next < MinInt THEN [ok |-> FALSE, val |-> 0]
             ELSE Accumulate(Tail(ds), next, sg)

\* str::parse::<i64>: optional sign "+" or "-", then one or more digits and
\* nothing else; Err on an empty string, a lone sign, any other character, or a
\* value out of range.
ParseInt(s) ==
    LET signed == s # <<>> /\ Head(s) \in {"-", "+"}
        sg == IF s # <<>> /\ Head(s) = "-" THEN 0 - 1 ELSE 1
        ds == IF signed THEN Tail(s) ELSE s
    IN  IF ds = <<>> \/ SpanLen(ds, DigitSet) # Len(ds) THEN [ok |-> FALSE, val |-> 0]
        ELSE Accumulate(ds, 0, sg)

----------------------------------------------------------------------------
(* Statements (enum Statement).                                            *)

VarAssign(var, value) == [type |-> "VarAssign", var |-> var, value |-> value]
VarUpdate(var, value) == [type |-> "VarUpdate", var |-> var, value |-> value]
IfCondition(var, value, true_branch, false_branch) ==
    [type |-> "IfCondition", var |-> var, value |-> value,
     true_branch |-> true_branch, false_branch |-> false_branch]
WhileLoop(var, op, value, body) ==
    [type |-> "WhileLoop", var |-> var, op |-> op, value |-> value, body |-> body]
FunctionCall(name, args) == [type |-> "FunctionCall", name |-> name, args |-> args]

----------------------------------------------------------------------------
(* The regular expressions of parse and parse_statement, as scanners.  Each *)
(* yields [m |-> whether the line matches, c |-> the capture groups].       *)

NoMatch == [m |-> FALSE, c |-> <<>>]
Match(caps) == [m |-> TRUE, c |-> caps]

\* Length of the match of -?\d+ at the start of s, 0 when there is none.
IntLen(s) ==
    LET neg == s # <<>> /\ Head(s) = "-"
        d == SpanLen(IF neg THEN Tail(s) ELSE s, DigitSet)
    IN  IF d = 0 THEN 0 ELSE d + (IF neg THEN 1 ELSE 0)

\* ^let (\w+) = (-?\d+);$
re_assign(line) ==
    LET r1 == Drop(line, 4)
        w == SpanLen(r1, WordChars)
        r2 == Drop(r1, w)
        r3 == Drop(r2, 3)
        n == IntLen(r3)
    IN  IF /\ IsPrefix(<<"l", "e", "t", " ">>, line)
           /\ w > 0
           /\ IsPrefix(<<" ", "=", " ">>, r2)
           /\ n > 0
           /\ Drop(r3, n) = <<";">>
        THEN Match(<<Take(r1, w), Take(r3, n)>>)
        ELSE NoMatch

\* ^(\w+) = (\w+) \+ (-?\d+);$
re_update(line) ==
    LET w1 == SpanLen(line, WordChars)
        r1 == Drop(line, w1)
        r2 == Drop(r1, 3)
        w2 == SpanLen(r2, WordChars)
        r3 == Drop(r2, w2)
        r4 == Drop(r3, 3)
        n == IntLen(r4)
    IN  IF /\ w1 > 0
           /\ IsPrefix(<<" ", "=", " ">>, r1)
           /\ w2 > 0
           /\ IsPrefix(<<" ", "+", " ">>, r3)
           /\ n > 0
           /\ Drop(r4, n) = <<";">>
        THEN Match(<<Take(line, w1), Take(r2, w2), Take(r4, n)>>)
        ELSE NoMatch

\* ^if (\w+) == (-?\d+) \{$
re_if(line) ==
    LET r1 == Drop(line, 3)
        w == SpanLen(r1, WordChars)
        r2 == Drop(r1, w)
        r3 == Drop(r2, 4)
        n == IntLen(r3)
    IN  IF /\ IsPrefix(<<"i", "f", " ">>, line)
           /\ w > 0
           /\ IsPrefix(<<" ", "=", "=", " ">>, r2)
           /\ n > 0
           /\ Drop(r3, n) = <<" ", "{">>
        THEN Match(<<Take(r1, w), Take(r3, n)>>)
        ELSE NoMatch

\* ^\} else \{$
re_else(line) == line = <<"}", " ", "e", "l", "s", "e", " ", "{">>

\* ^\}$
re_endif(line) == line = <<"}">>

\* ^\}$
re_endwhile(line) == line = <<"}">>

\* The alternatives of (==|!=|<|>|<=|>=).
Operators == {<<"=", "=">>, <<"!", "=">>, <<"<">>, <<">">>, <<"<", "=">>, <<">", "=">>}

\* ^while (\w+) (==|!=|<|>|<=|>=) (-?\d+) \{$
re_while(line) ==
    LET r1 == Drop(line, 6)
        w == SpanLen(r1, WordChars)
        r2 == Drop(r1, w)
        r3 == Drop(r2, 1)
        o == UntilLen(r3, " ")
        r4 == Drop(r3, o)
        r5 == Drop(r4, 1)
        n == IntLen(r5)
    IN  IF /\ IsPrefix(<<"w", "h", "i", "l", "e", " ">>, line)
           /\ w > 0
           /\ IsPrefix(<<" ">>, r2)
           /\ Take(r3, o) \in Operators
           /\ IsPrefix(<<" ">>, r4)
           /\ n > 0
           /\ Drop(r5, n) = <<" ", "{">>
        THEN Match(<<Take(r1, w), Take(r3, o), Take(r5, n)>>)
        ELSE NoMatch

\* ^(\w+)\(([^)]*)\);$
re_function_call(line) ==
    LET w == SpanLen(line, WordChars)
        r1 == Drop(line, w)
        r2 == Drop(r1, 1)
        a == UntilLen(r2, ")")
    IN  IF /\ w > 0
           /\ IsPrefix(<<"(">>, r1)
           /\ Drop(r2, a) = <<")", ";">>
        THEN Match(<<Take(line, w), Take(r2, a)>>)
        ELSE NoMatch

----------------------------------------------------------------------------
(* The parser.  A result is [err |-> "none" or the panic, out |-> the       *)
(* statements produced].                                                    *)

Ok(out) == [err |-> "none", out |-> out]
Panic(msg) == [err |-> msg, out |-> <<>>]

\* ParseArgs of a parser that reads an empty argument text as no argument.
ParseArgsOrNone(s) ==
    LET pieces == IF s = <<>> THEN <<>> ELSE Split(s, ",")
        parsed == [k \in 1..Len(pieces) |-> ParseInt(Trim(pieces[k]))]
    IN  IF \E k \in 1..Len(pieces) : ~parsed[k].ok
        THEN Panic("ParseIntError")
        ELSE Ok([k \in 1..Len(pieces) |-> parsed[k].val])

\* caps[2].split(',').map(|arg| arg.trim().parse().unwrap()).collect()
ParseArgs(s) ==
    LET pieces == Split(s, ",")
        parsed == [k \in 1..Len(pieces) |-> ParseInt(Trim(pieces[k]))]
    IN  IF \E k \in 1..Len(pieces) : ~parsed[k].ok
        THEN Panic("ParseIntError")
        ELSE Ok([k \in 1..Len(pieces) |-> parsed[k].val])

\* The arm of a declare line: the same code in parse and in parse_statement.
AssignArm(caps) ==
    LET value == ParseInt(caps[2])
    IN  IF value.ok THEN Ok(<<VarAssign(caps[1], value.val)>>) ELSE Panic("ParseIntError")

\* UpdateArm of a parser that updates the variable named on the right-hand
\* side.
UpdateArmOfSource(caps) ==
    LET value == ParseInt(caps[3])
    IN  IF value.ok THEN Ok(<<VarUpdate(caps[2], value.val)>>) ELSE Panic("ParseIntError")

\* The arm of an update line: the second identifier, caps[2], is not used.
UpdateArm(caps) ==
    LET value == ParseInt(caps[3])
    IN  IF value.ok THEN Ok(<<VarUpdate(caps[1], value.val)>>) ELSE Panic("ParseIntError")

\* CallArm of a parser that rejects the call of a function it does not know.
CallArmKnownOnly(caps) ==
    LET args == ParseArgs(caps[2])
    IN  IF caps[1] # <<"p", "r", "i", "n", "t">> THEN Panic("Unknown function")
        ELSE IF args.err = "none" THEN Ok(<<FunctionCall(caps[1], args.out)>>) ELSE args

\* The arm of a call line.
CallArm(caps) ==
    LET args == ParseArgs(caps[2])
    IN  IF args.err = "none" THEN Ok(<<FunctionCall(caps[1], args.out)>>) ELSE args

\* StatementOf of a parser that skips a malformed line inside a block, as the
\* top level does, instead of panicking.
StatementOfLenient(assign, update, call) ==
    IF assign.m THEN AssignArm(assign.c)
    ELSE IF update.m THEN UpdateArm(update.c)
    ELSE IF call.m THEN CallArm(call.c)
    ELSE Ok(<<>>)

\* The arms of parse_statement once the three patterns have been tried, in the
\* order of the source: declare, update, call, else panic.
StatementOf(assign, update, call) ==
    IF assign.m THEN AssignArm(assign.c)
    ELSE IF update.m THEN UpdateArm(update.c)
    ELSE IF call.m THEN CallArm(call.c)
    ELSE Panic("Invalid statement")

parse_statement(line) ==
    StatementOf(re_assign(line), re_update(line), re_function_call(line))

\* The inner loops of parse: from line i0 on, push parse_statement of every
\* line up to the end of input, a closing brace or, when stopAtElse, an else
\* line.  Yields the cursor reached, the statements collected, and the panic if
\* any.  Collected(st, rest) is the result for a line parsed to st followed by
\* the result rest of the lines after it.
NoBody(i0, err) == [i |-> i0, body |-> <<>>, err |-> err]
\* Collected of a parser that puts each statement of a block before the ones
\* collected so far.
CollectedReversed(st, rest) == [i |-> rest.i, body |-> rest.body \o st.out, err |-> rest.err]
Collected(st, rest) == [i |-> rest.i, body |-> st.out \o rest.body, err |-> rest.err]

RECURSIVE CollectBody(_, _, _)
RECURSIVE CollectLine(_, _, _, _)
CollectLine(ls, i0, stopAtElse, st) ==
    IF st.err # "none" THEN NoBody(i0, st.err)
    ELSE Collected(st, CollectBody(ls, i0 + 1, stopAtElse))

CollectBody(ls, i0, stopAtElse) ==
    IF /\ i0 < Len(ls)
       /\ ~(stopAtElse /\ re_else(Trim(ls[i0 + 1])))
       /\ ~re_endif(Trim(ls[i0 + 1]))
    THEN CollectLine(ls, i0, stopAtElse, parse_statement(Trim(ls[i0 + 1])))
    ELSE NoBody(i0, "none")

\* FalseBranch of a parser that forgets the else part: the lines after the else
\* line are then read as top-level lines.
FalseBranchForgotten(ls, tb) == NoBody(tb.i, "none")

\* The false branch, given the result tb of collecting the true branch: the
\* lines after an else line that ends the true branch, else nothing.
FalseBranch(ls, tb) ==
    IF tb.err = "none" /\ tb.i < Len(ls) /\ re_else(Trim(ls[tb.i + 1]))
    THEN CollectBody(ls, tb.i + 1, FALSE)
    ELSE NoBody(tb.i, "none")

\* The result of the arm of an if line at cursor i0: the value is parsed first,
\* then the true branch is collected, then the false branch.
IfResult(i0, caps, value, tb, fb) ==
    IF ~value.ok THEN [i |-> i0, err |-> "ParseIntError", out |-> <<>>]
    ELSE IF tb.err # "none" THEN [i |-> tb.i, err |-> tb.err, out |-> <<>>]
    ELSE IF fb.err # "none" THEN [i |-> fb.i, err |-> fb.err, out |-> <<>>]
    ELSE [i |-> fb.i, err |-> "none",
          out |-> <<IfCondition(caps[1], value.val, tb.body, fb.body)>>]

IfBranches(ls, i0, caps, tb) ==
    IfResult(i0, caps, ParseInt(caps[2]), tb, FalseBranch(ls, tb))

\* The arm of an if line, entered with the cursor on the if line.
IfArm(ls, i0, caps) == IfBranches(ls, i0, caps, CollectBody(ls, i0 + 1, TRUE))

WhileResult(i0, caps, value, b) ==
    IF ~value.ok THEN [i |-> i0, err |-> "ParseIntError", out |-> <<>>]
    ELSE IF b.err # "none" THEN [i |-> b.i, err |-> b.err, out |-> <<>>]
    ELSE [i |-> b.i, err |-> "none",
          out |-> <<WhileLoop(caps[1], caps[2], value.val, b.body)>>]

\* The arm of a while line, entered with the cursor on the while line.
WhileArm(ls, i0, caps) ==
    WhileResult(i0, caps, ParseInt(caps[3]), CollectBody(ls, i0 + 1, FALSE))

\* The result r of an arm that does not move the cursor.
Here(i0, r) == [i |-> i0, err |-> r.err, out |-> r.out]

\* ArmOf of a parser that panics on a top-level line no pattern matches, as
\* parse_statement does inside a block.
ArmOfStrict(ls, i0, assign, update, if, while, call) ==
    IF assign.m THEN Here(i0, AssignArm(assign.c))
    ELSE IF update.m THEN Here(i0, UpdateArm(update.c))
    ELSE IF if.m THEN IfArm(ls, i0, if.c)
    ELSE IF while.m THEN WhileArm(ls, i0, while.c)
    ELSE IF call.m THEN Here(i0, CallArm(call.c))
    ELSE Here(i0, Panic("Invalid statement"))

\* The if / else-if chain of parse for the trimmed line at cursor i0.
ArmOf(ls, i0, assign, update, if, while, call) ==
    IF assign.m THEN Here(i0, AssignArm(assign.c))
    ELSE IF update.m THEN Here(i0, UpdateArm(update.c))
    ELSE IF if.m THEN IfArm(ls, i0, if.c)
    ELSE IF while.m THEN WhileArm(ls, i0, while.c)
    ELSE IF call.m THEN Here(i0, CallArm(call.c))
    ELSE Here(i0, Ok(<<>>))

ArmAt(ls, i0, line) ==
    ArmOf(ls, i0, re_assign(line), re_update(line), re_if(line), re_while(line),
          re_function_call(line))

\* Stepped of a parser whose outer loop lacks the i += 1.
SteppedInPlace(arm) == [i |-> arm.i, err |-> arm.err, out |-> arm.out]

\* The i += 1 that ends an iteration, not reached when the arm panics.
Stepped(arm) ==
    [i |-> IF arm.err = "none" THEN arm.i + 1 ELSE arm.i, err |-> arm.err, out |-> arm.out]

\* One iteration of the outer loop of parse with the cursor at i0 (0-based, as
\* in the source): the cursor after the iteration, the statement pushed (none
\* for a line no pattern matches), and the panic if any.
ParseIteration(ls, i0) == Stepped(ArmAt(ls, i0, Trim(ls[i0 + 1])))

\* parse as a function: the statements returned for the lines ls, or the panic.
\* The statements out of the iteration it followed by the result rest.
ParseRest2(it, rest) == IF rest.err # "none" THEN rest ELSE Ok(it.out \o rest.out)

RECURSIVE ParseFrom(_, _)
RECURSIVE ParseRest(_, _)
ParseRest(ls, it) ==
    IF it.err # "none" THEN Panic(it.err) ELSE ParseRest2(it, ParseFrom(ls, it.i))
ParseFrom(ls, i0) ==
    IF i0 < Len(ls) THEN ParseRest(ls, ParseIteration(ls, i0)) ELSE Ok(<<>>)

----------------------------------------------------------------------------
(* Source texts.                                                           *)

X == <<"x">>
Y == <<"y">>
PrintName == <<"p", "r", "i", "n", "t">>
FooName == <<"f", "o", "o">>
Nl == <<"\n">>

RECURSIVE Sp(_)
Sp(n) == IF n = 0 THEN <<>> ELSE <<" ">> \o Sp(n - 1)

DeclareLine(v, n) == <<"l", "e", "t", " ">> \o v \o <<" ", "=", " ">> \o Format(n) \o <<";">>
UpdateLine(a, b, d) == a \o <<" ", "=", " ">> \o b \o <<" ", "+", " ">> \o Format(d) \o <<";">>
IfLine(v, n) == <<"i", "f", " ">> \o v \o <<" ", "=", "=", " ">> \o Format(n) \o <<" ", "{">>
WhileLine(v, op, n) ==
    <<"w", "h", "i", "l", "e", " ">> \o v \o <<" ">> \o op \o <<" ">> \o Format(n) \o <<" ", "{">>
CallLine(name, args) == name \o <<"(">> \o args \o <<")", ";">>
ElseLine == <<"}", " ", "e", "l", "s", "e", " ", "{">>
CloseLine == <<"}">>
BlankLine == <<>>
\* An assignment without let: no pattern of the parser matches it.
JunkLine == <<"x", " ", "=", " ", "1", ";">>

\* The first script of main.
ScenarioA ==
    Nl \o Sp(8) \o DeclareLine(X, 10) \o Nl
       \o Sp(8) \o DeclareLine(Y, 20) \o Nl
       \o Sp(8) \o UpdateLine(X, X, 5) \o Nl
       \o Sp(8) \o IfLine(X, 15) \o Nl
       \o Sp(12) \o CallLine(PrintName, <<"1", ",", " ", "2", ",", " ", "3">>) \o Nl
       \o Sp(8) \o ElseLine \o Nl
       \o Sp(12) \o CallLine(PrintName, <<"4", ",", " ", "5", ",", " ", "6">>) \o Nl
       \o Sp(8) \o CloseLine \o Nl
       \o Sp(4)

\* The second script of main.
ScenarioB ==
    Nl \o Sp(8) \o DeclareLine(X, 0) \o Nl
       \o Sp(8) \o WhileLine(X, <<"<">>, 5) \o Nl
       \o Sp(12) \o UpdateLine(X, X, 1) \o Nl
       \o Sp(12) \o CallLine(PrintName, X) \o Nl
       \o Sp(8) \o CloseLine \o Nl
       \o Sp(4)

\* Generated scripts: every line indented by two blanks and ended by a newline.
RECURSIVE Text(_)
Text(ls) == IF ls = <<>> THEN <<>> ELSE Sp(2) \o Head(ls) \o Nl \o Text(Tail(ls))

SeqsUpTo(pool, n) == UNION {[1..k -> pool] : k \in 0..n}

PrintLine(args) == CallLine(PrintName, args)
FooLine == CallLine(FooName, <<"1">>)

\* Lines parse_statement accepts.
GoodPool == {UpdateLine(X, X, 1), PrintLine(<<"1", ",", " ", "2">>), FooLine, DeclareLine(X, 5)}
\* Lines parse_statement rejects, or that end the block early.
BadPool == {BlankLine, IfLine(X, 1), WhileLine(X, <<"<">>, 2), PrintLine(<<>>), ElseLine}
BadBodies ==
    UNION {{<<b>>, <<PrintLine(<<"8">>), b>>, <<b, PrintLine(<<"8">>)>>} : b \in BadPool}
\* Bodies whose update names another variable on its right-hand side, and
\* a body calling a function with no argument.
OtherBodies == {<<UpdateLine(X, Y, 1)>>, <<UpdateLine(Y, X, 2)>>,
                <<CallLine(FooName, <<>>)>>}
Bodies == SeqsUpTo(GoodPool, MaxBody) \cup BadBodies \cup OtherBodies

ElseParts == {<<>>, <<ElseLine>>, <<ElseLine, UpdateLine(X, X, 1)>>,
              <<ElseLine, PrintLine(<<"4">>)>>, <<ElseLine, FooLine>>}

IfBlocks == {<<IfLine(X, 1)>> \o b \o e \o <<CloseLine>> : b \in Bodies, e \in ElseParts}
WhileHeaders == {WhileLine(X, <<"<">>, 2), WhileLine(X, <<"<">>, 3), WhileLine(X, <<"!", "=">>, 2)}
WhileBlocks ==
    {<<h>> \o b \o <<CloseLine>> : h \in WhileHeaders, b \in Bodies}

Preludes == {<<>>, <<DeclareLine(X, 0)>>, <<DeclareLine(X, 1)>>, <<DeclareLine(X, MaxInt)>>,
             <<DeclareLine(Y, 3), DeclareLine(X, 2)>>}
Tails == {<<>>, <<PrintLine(<<"7">>)>>}

TopPool == {UpdateLine(X, Y, 1), UpdateLine(X, X, 1), UpdateLine(X, X, 0 - 1),
            PrintLine(<<"3">>), FooLine, PrintLine(<<>>), CallLine(FooName, <<>>),
            BlankLine, JunkLine,
            CloseLine, ElseLine, IfLine(X, 1), WhileLine(X, <<"<">>, 2),
            DeclareLine(X, MaxInt + 1), DeclareLine(Y, MinInt)}

Programs ==
    {ScenarioA, ScenarioB}
    \cup {Text(p \o b \o t) : p \in Preludes, b \in IfBlocks \cup WhileBlocks, t \in Tails}
    \cup {Text(p \o m) : p \in Preludes, m \in SeqsUpTo(TopPool, MaxTop)}

----------------------------------------------------------------------------
(* The run of one script: Interpreter::new, parse, evaluate.               *)

EmptyMap == [v \in {} |-> 0]
\* Insert of an evaluator that keeps the value of a variable already declared.
InsertIfAbsent(m, key, value) ==
    [v \in DOMAIN m \cup {key} |-> IF v \in DOMAIN m THEN m[v] ELSE value]

\* HashMap::insert
Insert(m, key, value) == [v \in DOMAIN m \cup {key} |-> IF v = key THEN value ELSE m[v]]

\* The two's complement value of n in IntBits bits.
Wrap(n) == ((n - MinInt) % Pow2(IntBits)) + MinInt

Init ==
    /\ code \in Programs
    /\ lines = <<>>
    /\ i = 0
    /\ statements = <<>>
    /\ phase = "start"
    /\ stack = <<>>
    /\ variables = EmptyMap
    /\ output = <<>>
    /\ fatal = "none"
    /\ hist = <<>>

\* parse, up to its loop: the text is split into lines, the cursor is 0.
ParseBegin ==
    /\ phase = "start"
    /\ lines' = Lines(code)
    /\ i' = 0
    /\ statements' = <<>>
    /\ phase' = "parse"
    /\ UNCHANGED <<code, stack, variables, output, fatal, hist>>

\* The effect of one iteration of the loop of parse with result it; a panic
\* ends the run and drops the statements collected so far.
ParseLineTo(it) ==
    /\ i' = it.i
    /\ IF it.err = "none"
       THEN /\ statements' = statements \o it.out
            /\ UNCHANGED <<phase, fatal>>
       ELSE /\ statements' = <<>>
            /\ phase' = "fatal"
            /\ fatal' = it.err

\* One iteration of the loop of parse.
ParseLine ==
    /\ phase = "parse"
    /\ i < Len(lines)
    /\ ParseLineTo(ParseIteration(lines, i))
    /\ UNCHANGED <<code, lines, stack, variables, output, hist>>

\* parse returns its statements and main passes them to evaluate.
ParseReturn ==
    /\ phase = "parse"
    /\ i >= Len(lines)
    /\ phase' = "eval"
    /\ stack' = <<[stmts |-> statements, k |-> 1]>>
    /\ UNCHANGED <<code, lines, i, statements, variables, output, fatal, hist>>

\* The frame of the innermost active call of evaluate, and the statement its
\* for loop is at.
Top == stack[Len(stack)]
Cur == Top.stmts[Top.k]
\* The stack with the for loop of the innermost call moved to its next statement.
Advance == [stack EXCEPT ![Len(stack)].k = @ + 1]
\* Push of an evaluator that runs the body of a while as the branch of an if:
\* once, with the for loop of the caller already at the next statement.
PushAndLeave(stmts) == Append(Advance, [stmts |-> stmts, k |-> 1])
Push(stmts) == Append(stack, [stmts |-> stmts, k |-> 1])

\* The evaluator is about to execute a statement of type t.
At(t) ==
    /\ phase = "eval"
    /\ stack # <<>>
    /\ Top.k <= Len(Top.stmts)
    /\ Cur.type = t
    /\ Len(hist) < MaxSteps

\* What the run records of an executed statement: the depth of the call, the
\* position in its sequence, the statement's type, what happened, and the value
\* of the statement's variable that was read (<<>> when there is none).
Event(what, seen) ==
    [depth |-> Len(stack), k |-> Top.k, type |-> Cur.type, what |-> what, seen |-> seen]

\* evaluate_condition of an evaluator whose "<" arm tests <=.
evaluate_condition_le(var, op, value) ==
    IF var \in DOMAIN variables
    THEN LET var_value == variables[var]
         IN  IF op = <<"=", "=">> THEN var_value = value
             ELSE IF op = <<"!", "=">> THEN var_value # value
             ELSE IF op = <<"<">> THEN var_value <= value
             ELSE IF op = <<">">> THEN var_value > value
             ELSE IF op = <<"<", "=">> THEN var_value <= value
             ELSE IF op = <<">", "=">> THEN var_value >= value
             ELSE FALSE
    ELSE FALSE

\* evaluate_condition of an evaluator that reads an undeclared variable as 0.
evaluate_condition_default(var, op, value) ==
    LET var_value == IF var \in DOMAIN variables THEN variables[var] ELSE 0
    IN  IF op = <<"=", "=">> THEN var_value = value
        ELSE IF op = <<"!", "=">> THEN var_value # value
        ELSE IF op = <<"<">> THEN var_value < value
        ELSE IF op = <<">">> THEN var_value > value
        ELSE IF op = <<"<", "=">> THEN var_value <= value
        ELSE IF op = <<">", "=">> THEN var_value >= value
        ELSE FALSE

evaluate_condition(var, op, value) ==
    IF var \in DOMAIN variables
    THEN LET var_value == variables[var]
         IN  IF op = <<"=", "=">> THEN var_value = value
             ELSE IF op = <<"!", "=">> THEN var_value # value
             ELSE IF op = <<"<">> THEN var_value < value
             ELSE IF op = <<">">> THEN var_value > value
             ELSE IF op = <<"<", "=">> THEN var_value <= value
             ELSE IF op = <<">", "=">> THEN var_value >= value
             ELSE FALSE
    ELSE FALSE

\* Sum of an evaluator that stores the operand instead of adding it.
SumStored(var_value, value) == value

\* *var_value += value, before the range of the integer type is applied.
Sum(var_value, value) == var_value + value

\* Chosen of an evaluator that takes the branches the wrong way round.
ChosenSwapped(stmt, var_value) ==
    IF var_value = stmt.value THEN stmt.false_branch ELSE stmt.true_branch

\* The branch of an if statement that is evaluated when its variable holds
\* var_value.
Chosen(stmt, var_value) ==
    IF var_value = stmt.value THEN stmt.true_branch ELSE stmt.false_branch

\* IsPrint of an evaluator that treats every name as print.
IsPrintAny(name) == TRUE

\* The arm of match name.as_str() that is taken: "print" or the catch-all.
IsPrint(name) == name = PrintName

\* self.variables.get(var): <<the value>>, or <<>> for None.
Seen(var) == IF var \in DOMAIN variables THEN <<variables[var]>> ELSE <<>>

EvalVarAssign ==
    /\ At("VarAssign")
    /\ variables' = Insert(variables, Cur.var, Cur.value)
    /\ stack' = Advance
    /\ hist' = Append(hist, Event("set", Seen(Cur.var)))
    /\ UNCHANGED <<code, lines, i, statements, phase, output, fatal>>

\* *var_value += value: a sum out of range panics in a build with overflow
\* checks (the default of the dev profile) and wraps in a build without them.
EvalVarUpdate ==
    /\ At("VarUpdate")
    /\ IF Cur.var \in DOMAIN variables
       THEN LET sum == Sum(variables[Cur.var], Cur.value)
            IN  IF MinInt <= sum /\ sum <= MaxInt
                THEN /\ variables' = [variables EXCEPT ![Cur.var] = sum]
                     /\ stack' = Advance
                     /\ hist' = Append(hist, Event("added", Seen(Cur.var)))
                     /\ UNCHANGED <<phase, fatal>>
                ELSE \E overflow_checks \in BOOLEAN :
                        IF overflow_checks
                        THEN /\ phase' = "fatal"
                             /\ fatal' = "attempt to add with overflow"
                             /\ hist' = Append(hist, Event("panic", Seen(Cur.var)))
                             /\ UNCHANGED <<variables, stack>>
                        ELSE /\ variables' = [variables EXCEPT ![Cur.var] = Wrap(sum)]
                             /\ stack' = Advance
                             /\ hist' = Append(hist, Event("wrapped", Seen(Cur.var)))
                             /\ UNCHANGED <<phase, fatal>>
       ELSE /\ stack' = Advance
            /\ hist' = Append(hist, Event("absent", Seen(Cur.var)))
            /\ UNCHANGED <<variables, phase, fatal>>
    /\ UNCHANGED <<code, lines, i, statements, output>>

\* The recursive call evaluate(true_branch) or evaluate(false_branch) is a new
\* frame; the for loop of the caller goes on after it returns.
EvalIfCondition ==
    /\ At("IfCondition")
    /\ IF Cur.var \in DOMAIN variables
       THEN /\ stack' = Append(Advance, [stmts |-> Chosen(Cur, variables[Cur.var]), k |-> 1])
            /\ hist' = Append(hist, Event(IF variables[Cur.var] = Cur.value THEN "true" ELSE "false",
                                          Seen(Cur.var)))
       ELSE /\ stack' = Advance
            /\ hist' = Append(hist, Event("absent", Seen(Cur.var)))
    /\ UNCHANGED <<code, lines, i, statements, phase, variables, output, fatal>>

\* One test of the condition of the while: true calls evaluate(body.clone())
\* and the test is made again when that returns; false leaves the loop.
EvalWhileLoop ==
    /\ At("WhileLoop")
    /\ IF evaluate_condition(Cur.var, Cur.op, Cur.value)
       THEN /\ stack' = Push(Cur.body)
            /\ hist' = Append(hist, Event("true", Seen(Cur.var)))
       ELSE /\ stack' = Advance
            /\ hist' = Append(hist, Event("false", Seen(Cur.var)))
    /\ UNCHANGED <<code, lines, i, statements, phase, variables, output, fatal>>

\* print!("{} ", arg) for each argument: the text of one output line, without
\* the newline println!() ends it with.
RECURSIVE PrintTextJoined(_)
\* PrintText of an evaluator that puts the space between the arguments only.
PrintTextJoined(args) ==
    IF args = <<>> THEN <<>>
    ELSE IF Len(args) = 1 THEN Format(Head(args))
    ELSE Format(Head(args)) \o <<" ">> \o PrintTextJoined(Tail(args))

RECURSIVE PrintText(_)
PrintText(args) ==
    IF args = <<>> THEN <<>> ELSE Format(Head(args)) \o <<" ">> \o PrintText(Tail(args))

\* Emit of an evaluator whose printed lines do not reach the output.
EmitNothing(out, args) == out

\* The output after print has written the line of args.
Emit(out, args) == Append(out, PrintText(args))

EvalFunctionCall ==
    /\ At("FunctionCall")
    /\ IF IsPrint(Cur.name)
       THEN /\ output' = Emit(output, Cur.args)
            /\ stack' = Advance
            /\ hist' = Append(hist, Event("print", <<>>))
            /\ UNCHANGED <<phase, fatal>>
       ELSE /\ phase' = "fatal"
            /\ fatal' = "Unknown function"
            /\ hist' = Append(hist, Event("panic", <<>>))
            /\ UNCHANGED <<output, stack>>
    /\ UNCHANGED <<code, lines, i, statements, variables>>

\* The for loop of the innermost call is over: the call returns; the return of
\* the outermost call ends the run.
EvalReturn ==
    /\ phase = "eval"
    /\ stack # <<>>
    /\ Top.k > Len(Top.stmts)
    /\ stack' = Take(stack, Len(stack) - 1)
    /\ phase' = IF Len(stack) = 1 THEN "done" ELSE phase
    /\ UNCHANGED <<code, lines, i, statements, variables, output, fatal, hist>>

Next ==
    \/ ParseBegin
    \/ ParseLine
    \/ ParseReturn
    \/ EvalVarAssign
    \/ EvalVarUpdate
    \/ EvalIfCondition
    \/ EvalWhileLoop
    \/ EvalFunctionCall
    \/ EvalReturn

Spec == Init /\ [][Next]_vars

----------------------------------------------------------------------------
(* The claims.                                                              *)

ParseFatal == {"Invalid statement", "ParseIntError"}

\* The output line of print(1, 2, 3) and the lines of print(1) .. print(5).
Line123 == <<"1", " ", "2", " ", "3", " ">>
Line456 == <<"4", " ", "5", " ", "6", " ">>
OneToFive == [n \in 1..5 |-> Format(n) \o <<" ">>]

\* C1: the run of the second script of main never panics and, once it is over,
\* has printed exactly the five lines "1 ", "2 ", "3 ", "4 ", "5 " in that order.
\* The code violates it: the body line print(x); matches re_function_call and
\* its argument x is not an integer, so parse panics.
C1_ScenarioBPrintsOneToFive ==
    code = ScenarioB =>
        /\ phase # "fatal"
        /\ phase = "done" => output = OneToFive

\* C2: the run of the first script of main never panics, prints nothing but
\* the one line "1 2 3 " (never "4 5 6 "), and ends with that line printed and
\* the environment x = 15, y = 20.
C2_ScenarioA ==
    code = ScenarioA =>
        /\ phase # "fatal"
        /\ output \in {<<>>, <<Line123>>}
        /\ \A k \in 1..Len(output) : output[k] # Line456
        /\ phase = "done" =>
              /\ output = <<Line123>>
              /\ variables = [v \in {X, Y} |-> IF v = X THEN 15 ELSE 20]

C2_Witness == code = ScenarioA /\ phase = "done" /\ output = <<Line123>>

Last(s) == s[Len(s)]
Max(a, b) == IF a >= b THEN a ELSE b

\* C3: a VarUpdate{x, D} executed where x maps to V, with V + D in the range of
\* the integer type, leaves x at V + D and every other variable as it was;
\* executed where x is absent it leaves the environment as it was, x still
\* absent, and the run goes on.
C3_VarUpdate ==
    [][At("VarUpdate") =>
          IF Cur.var \in DOMAIN variables
          THEN (MinInt <= variables[Cur.var] + Cur.value /\ variables[Cur.var] + Cur.value <= MaxInt) =>
                  /\ DOMAIN variables' = DOMAIN variables
                  /\ variables'[Cur.var] = variables[Cur.var] + Cur.value
                  /\ \A v \in DOMAIN variables \ {Cur.var} : variables'[v] = variables[v]
                  /\ phase' = "eval"
          ELSE /\ variables' = variables
               /\ Cur.var \notin DOMAIN variables'
               /\ phase' = "eval"]_vars

\* An update by a non-zero amount has just been executed on a declared variable,
\* next to another declared variable.
C3_Witness ==
    /\ hist # <<>>
    /\ Last(hist).type = "VarUpdate"
    /\ Last(hist).what = "added"
    /\ Last(hist).seen # <<variables[X]>>
    /\ DOMAIN variables = {X, Y}

\* The number of events right after event j of the run that were executed in
\* calls of evaluate deeper than the call of event j.
RunLen(j) ==
    CHOOSE n \in 0..(Len(hist) - j) :
        /\ \A m \in 1..n : hist[j + m].depth > hist[j].depth
        /\ j + n = Len(hist) \/ hist[j + n + 1].depth <= hist[j].depth

\* The branch the executed if statement of event j ran, by what event j says.
BranchOf(j) ==
    IF hist[j].what = "true" THEN statements[hist[j].k].true_branch
    ELSE IF hist[j].what = "false" THEN statements[hist[j].k].false_branch
    ELSE <<>>

\* The statements executed below the if statement of event j are statements 1,
\* 2, .. of one branch: the true branch if the variable held the value of the
\* statement, the false branch if it held another value, none if it was absent;
\* all of that branch once the run has gone on after it.
IfRunsOneBranch(j) ==
    /\ hist[j].depth = 1
    /\ hist[j].what = "true" <=> hist[j].seen = <<statements[hist[j].k].value>>
    /\ hist[j].what = "absent" <=> hist[j].seen = <<>>
    /\ RunLen(j) <= Len(BranchOf(j))
    /\ \A m \in 1..RunLen(j) :
          /\ hist[j + m].depth = 2
          /\ hist[j + m].k = m
          /\ hist[j + m].type = BranchOf(j)[m].type
    /\ (j + RunLen(j) < Len(hist) \/ phase = "done") => RunLen(j) = Len(BranchOf(j))

\* C4: an IfCondition{x, V, A, B} executed where x is declared calls evaluate on
\* exactly one branch, A if x = V at that moment and B otherwise, and the caller
\* goes on with the statement after the if when that call returns, whatever the
\* branch did to x; executed where x is undeclared it calls nothing; the
\* statement itself changes neither environment nor output.
C4_IfCondition ==
    /\ [][At("IfCondition") =>
            /\ variables' = variables
            /\ output' = output
            /\ phase' = phase
            /\ IF Cur.var \in DOMAIN variables
               THEN /\ Len(stack') = Len(stack) + 1
                    /\ Last(stack') =
                          [stmts |-> IF variables[Cur.var] = Cur.value
                                     THEN Cur.true_branch ELSE Cur.false_branch,
                           k |-> 1]
                    /\ stack'[Len(stack)] = [Top EXCEPT !.k = @ + 1]
               ELSE stack' = [stack EXCEPT ![Len(stack)].k = @ + 1]]_vars
    /\ [](\A j \in 1..Len(hist) : hist[j].type = "IfCondition" => IfRunsOneBranch(j))

\* The run is over; its if statement found x equal to V, ran a true branch that
\* changed x, and has an else branch that was not run.
C4_Witness ==
    /\ phase = "done"
    /\ \E j \in 1..Len(hist) :
          /\ hist[j].type = "IfCondition"
          /\ hist[j].what = "true"
          /\ statements[hist[j].k].false_branch # <<>>
          /\ statements[hist[j].k].var \in DOMAIN variables
          /\ variables[statements[hist[j].k].var] # statements[hist[j].k].value

\* A while statement "while x < N" whose body adds 1 to x once and otherwise
\* only prints.
IncLoop(st) ==
    /\ st.type = "WhileLoop"
    /\ st.op = <<"<">>
    /\ Cardinality({m \in 1..Len(st.body) : st.body[m] = VarUpdate(st.var, 1)}) = 1
    /\ \A m \in 1..Len(st.body) :
          st.body[m] = VarUpdate(st.var, 1)
          \/ (st.body[m].type = "FunctionCall" /\ st.body[m].name = PrintName)

\* The events of the tests of the top-level while statement at position k.
TestsOf(k) == {m \in 1..Len(hist) : hist[m].depth = 1 /\ hist[m].k = k /\ hist[m].type = "WhileLoop"}
FirstTest(k) == CHOOSE m \in TestsOf(k) : \A n \in TestsOf(k) : m <= n
\* The iterations of that statement begun before event j.
Iterations(k, j) == Cardinality({m \in TestsOf(k) : m < j /\ hist[m].what = "true"})

\* C5: for a top-level "while x < N" whose body adds 1 to x per iteration, first
\* reached with x = v: an iteration starts only while fewer than N - v have been
\* run, the loop is left after exactly N - v iterations when v < N and after
\* none when v >= N, with x = max(v, N); and an evaluation that is not over is
\* never stuck, so the loop is left after finitely many steps.
C5_WhileCounts ==
    /\ \A j \in 1..Len(hist) :
          (/\ hist[j].type = "WhileLoop"
           /\ hist[j].depth = 1
           /\ IncLoop(statements[hist[j].k])
           /\ hist[FirstTest(hist[j].k)].seen # <<>>) =>
             LET N == statements[hist[j].k].value
                 v == hist[FirstTest(hist[j].k)].seen[1]
                 t == Iterations(hist[j].k, j)
             IN  /\ hist[j].what = "true" => t < N - v
                 /\ hist[j].what = "false" =>
                       /\ t = Max(N - v, 0)
                       /\ hist[j].seen = <<Max(v, N)>>
    /\ (phase = "eval" /\ Len(hist) < MaxSteps) => ENABLED Next

\* The run is over and its loop "while x < 3", first reached with x = 0, was
\* left after three iterations.
C5_Witness ==
    /\ phase = "done"
    /\ \E j \in 1..Len(hist) :
          /\ hist[j].type = "WhileLoop"
          /\ hist[j].what = "false"
          /\ IncLoop(statements[hist[j].k])
          /\ hist[FirstTest(hist[j].k)].seen = <<0>>
          /\ Iterations(hist[j].k, j) = 3

\* C6: a FunctionCall whose name is not print, when evaluation reaches it, ends
\* the run in the fatal state with environment and output as they were, and
\* nothing is executed in the fatal state: no step leaves it.
C6_UnknownFunctionFatal ==
    [][/\ (At("FunctionCall") /\ Cur.name # PrintName) =>
            /\ phase' = "fatal"
            /\ fatal' = "Unknown function"
            /\ variables' = variables
            /\ output' = output
            /\ stack' = stack
       /\ phase # "fatal"]_vars

\* The run has ended at a call of an unknown function inside a block, with a
\* statement left after it in the block and one left after the block.
C6_Witness ==
    /\ phase = "fatal"
    /\ fatal = "Unknown function"
    /\ Len(stack) = 2
    /\ Top.k < Len(Top.stmts)
    /\ stack[1].k <= Len(stack[1].stmts)

\* The trimmed line at cursor c (0-based) of the lines being parsed.
LineAt(c) == Trim(lines[c + 1])

IsStatementLine(l) == re_assign(l).m \/ re_update(l).m \/ re_function_call(l).m
IsOpener(l) == re_if(l).m \/ re_while(l).m
EndsBlock(l, stopAtElse) == l = CloseLine \/ (stopAtElse /\ l = ElseLine)

\* The cursor where the part of a block that starts at cursor from ends: the
\* first line from there on that closes the block (or, when stopAtElse, is an
\* else line), or the end of input.
BlockEnd(from, stopAtElse) ==
    CHOOSE c \in from..Max(from, Len(lines)) :
        /\ c >= Len(lines) \/ EndsBlock(LineAt(c), stopAtElse)
        /\ \A b \in from..(c - 1) : ~EndsBlock(LineAt(b), stopAtElse)

\* The cursors of the lines inside the block opened by the line at cursor c:
\* after the opening line and before the line that switches or closes the
\* block, and for an if with an else line, after that line and before the line
\* that closes the block.
Inside(c) ==
    LET isIf == re_if(LineAt(c)).m
        e1 == BlockEnd(c + 1, isIf)
        first == (c + 1)..(e1 - 1)
    IN  IF isIf /\ e1 < Len(lines) /\ LineAt(e1) = ElseLine
        THEN first \cup (e1 + 1)..(BlockEnd(e1 + 1, FALSE) - 1)
        ELSE first

\* C7: when parse is at a line that opens an if or while block and some line
\* inside that block is not a declare, update or call line (a nested opener and
\* a blank line included), the parse fails fatally there: the run enters the
\* fatal state with a panic of the parser and no statements are returned.
C7_MalformedNestedFatal ==
    [][(/\ phase = "parse"
        /\ i < Len(lines)
        /\ IsOpener(LineAt(i))
        /\ \E c \in Inside(i) : ~IsStatementLine(LineAt(c))) =>
          /\ phase' = "fatal"
          /\ fatal' \in ParseFatal
          /\ statements' = <<>>]_vars

\* The parse has panicked with "Invalid statement" at an if or while line
\* nested in a block.
C7_Witness ==
    /\ phase = "fatal"
    /\ fatal = "Invalid statement"
    /\ IsOpener(LineAt(i))

\* An argument list made of integer literals (-?\d+ after trimming) separated
\* by commas.
IsIntList(s) ==
    \A k \in 1..Len(Split(s, ",")) :
        LET a == Trim(Split(s, ",")[k]) IN a # <<>> /\ IntLen(a) = Len(a)

\* The line is a well-formed instance of one of the grammar forms 1 to 5.
WellFormed(l) ==
    \/ re_assign(l).m
    \/ re_update(l).m
    \/ re_if(l).m
    \/ re_while(l).m
    \/ (re_function_call(l).m /\ IsIntList(re_function_call(l).c[2]))

\* One of the five patterns of parse matches the line.
MatchesPattern(l) ==
    re_assign(l).m \/ re_update(l).m \/ re_if(l).m \/ re_while(l).m \/ re_function_call(l).m

Without(ls, k) == SubSeq(ls, 1, k - 1) \o SubSeq(ls, k + 1, Len(ls))

\* The step of parse at cursor i ignores the line: no panic, no statement
\* pushed, the cursor moves to the next line, and parse returns for the whole
\* text what it returns for the text without that line.
IgnoresLine ==
    /\ phase' = "parse"
    /\ fatal' = "none"
    /\ statements' = statements
    /\ i' = i + 1
    /\ ParseFrom(Without(lines, i + 1), 0) = ParseFrom(lines, 0)

\* C8 as stated: every top-level line that is not a well-formed instance of the
\* forms 1 to 5 is silently ignored.  The code violates it at a top-level line
\* such as print(); which matches the call pattern and panics on its argument.
C8_IllFormedTopLevelIgnored ==
    [][(phase = "parse" /\ i < Len(lines) /\ ~WellFormed(LineAt(i))) => IgnoresLine]_vars

\* C8 amended: every top-level line that none of the five patterns of parse
\* matches (the call pattern being a name, "(", any text without ")", ");") is
\* silently ignored; a top-level line that only the call pattern matches and
\* whose arguments do not all parse as integers is fatal instead.
C8_UnmatchedTopLevelIgnored ==
    [][/\ (phase = "parse" /\ i < Len(lines) /\ ~MatchesPattern(LineAt(i))) => IgnoresLine
       /\ (/\ phase = "parse"
           /\ i < Len(lines)
           /\ ~WellFormed(LineAt(i))
           /\ MatchesPattern(LineAt(i))
           /\ ParseArgs(re_function_call(LineAt(i)).c[2]).err # "none") =>
             (phase' = "fatal" /\ fatal' = "ParseIntError")]_vars

\* Parse has just passed a top-level line no pattern matches, after having
\* pushed a statement, and goes on.
C8_Witness ==
    /\ phase = "parse"
    /\ i > 0
    /\ i < Len(lines)
    /\ Trim(lines[i]) = JunkLine
    /\ statements # <<>>

NumPrints == Cardinality({j \in 1..Len(hist) : hist[j].what = "print"})

\* C9 as stated: a run that ends in a fatal condition has emitted no print
\* output.  The code violates it: print writes its line when it is executed,
\* and a later call of an unknown function aborts the run after that.
C9_FatalRunPrintsNothing == phase = "fatal" => output = <<>>

\* C9 amended: a run that ends in a fatal condition of the parser has emitted
\* no output, nothing being evaluated before parse has returned; a run that
\* aborts during evaluation has emitted one line for each print call executed
\* before the abort.
C9_FatalRunOutput ==
    /\ (phase \in {"start", "parse"} \/ fatal \in ParseFatal) => (output = <<>> /\ hist = <<>>)
    /\ phase = "fatal" => Len(output) = NumPrints

\* The run has aborted at a call of an unknown function after a print call.
C9_Witness == phase = "fatal" /\ fatal = "Unknown function" /\ output # <<>>

\* C10: a run aborts only for an unknown function, an unparsable nested
\* statement or an unparsable integer literal; in particular no VarUpdate on
\* a declared variable aborts.  The code violates it in a build with overflow
\* checks: *var_value += value panics when the sum leaves the integer range.
C10_OnlyThreeFatalConditions ==
    /\ phase = "fatal" <=> fatal # "none"
    /\ fatal \in {"none", "Unknown function", "Invalid statement", "ParseIntError"}

\* The text is the decimal numeral of n: digits with a leading "-" exactly when
\* n is negative, no other sign and no leading zero, of value n.
IsNumeralOf(text, n) ==
    /\ ParseInt(text).ok
    /\ ParseInt(text).val = n
    /\ Head(text) # "+"
    /\ (Head(text) = "-") = (n < 0)
    /\ \/ n = 0 /\ text = <<"0">>
       \/ n # 0 /\ text[IF n < 0 THEN 2 ELSE 1] # "0"

\* The line is what print writes for args before the newline: the numeral of
\* each argument, in order, each followed by one space.
IsPrintedLine(line, args) ==
    LET pieces == Split(line, " ")
    IN  /\ Len(pieces) = Len(args) + 1
        /\ pieces[Len(pieces)] = <<>>
        /\ \A k \in 1..Len(args) : IsNumeralOf(pieces[k], args[k])

\* C11: an executed print with arguments a1..an appends exactly one line to the
\* output, made of the numeral of each argument followed by one space (the last
\* one too), after the lines written before it; a step that is not the
\* execution of a print leaves the output as it was, and the output starts
\* empty.
C11_PrintAppendsOneLine ==
    /\ [](phase \in {"start", "parse"} => output = <<>>)
    /\ [][IF At("FunctionCall") /\ Cur.name = PrintName
          THEN /\ Len(output') = Len(output) + 1
               /\ SubSeq(output', 1, Len(output)) = output
               /\ IsPrintedLine(Last(output'), Cur.args)
          ELSE output' = output]_vars

\* A print of two arguments has written its line after the line of an earlier
\* print.
C11_Witness ==
    /\ Len(output) >= 2
    /\ hist # <<>>
    /\ Last(hist).what = "print"
    /\ \E a, b \in MinInt..MaxInt : IsPrintedLine(Last(output), <<a, b>>)

\* The statement the event hist[j] is about, when it is one of the script's
\* top-level statements.
StatementOfEvent(j) == statements[hist[j].k]

\* C12: a WhileLoop executed where its variable is undeclared runs its body
\* zero times, whatever the body holds (a declaration of that variable
\* included): the step changes neither environment nor output, raises nothing,
\* and moves the evaluation to the statement after the loop; so the test of such
\* a loop is recorded once, as false, and what runs next is not its body.
C12_WhileOnUndeclared ==
    /\ [][(At("WhileLoop") /\ Cur.var \notin DOMAIN variables) =>
            /\ variables' = variables
            /\ output' = output
            /\ phase' = "eval"
            /\ fatal' = "none"
            /\ stack' = [stack EXCEPT ![Len(stack)].k = @ + 1]]_vars
    /\ [](\A j \in 1..Len(hist) :
            (hist[j].type = "WhileLoop" /\ hist[j].seen = <<>>) =>
                /\ hist[j].what = "false"
                /\ j < Len(hist) =>
                      /\ hist[j + 1].depth = hist[j].depth
                      /\ hist[j + 1].k = hist[j].k + 1)

\* The run is over; its loop on an undeclared variable has a body that declares
\* that variable, the variable is still undeclared and the statement after the
\* loop has been executed.
C12_Witness ==
    /\ phase = "done"
    /\ variables = EmptyMap
    /\ \E j \in 1..(Len(hist) - 1) :
          /\ hist[j].type = "WhileLoop"
          /\ hist[j].depth = 1
          /\ hist[j].seen = <<>>
          /\ \E b \in 1..Len(StatementOfEvent(j).body) :
                /\ StatementOfEvent(j).body[b].type = "VarAssign"
                /\ StatementOfEvent(j).body[b].var = StatementOfEvent(j).var
          /\ hist[j + 1].type = "FunctionCall"
          /\ output # <<>>

\* The cursor of the line that closes the block opened by the line at cursor
\* c, or Len(lines) when nothing closes it; and the cursor where its first part
\* ends (the else line of an if that has one, else the closing line).
FirstEnd(c) == BlockEnd(c + 1, re_if(LineAt(c)).m)
HasElse(c) == re_if(LineAt(c)).m /\ FirstEnd(c) < Len(lines) /\ LineAt(FirstEnd(c)) = ElseLine
CloseOf(c) == IF HasElse(c) THEN BlockEnd(FirstEnd(c) + 1, FALSE) ELSE FirstEnd(c)

\* The statement of the declare, update or call line at cursor c.
Leaf(c) == parse_statement(LineAt(c)).out[1]
\* The statements of the lines at the cursors from + 1 .. to - 1, in order.
Leaves(from, to) == [k \in 1..(to - from - 1) |-> Leaf(from + k)]

\* The statement a closed block opened at cursor c stands for.
BlockStatement(c) ==
    IF re_if(LineAt(c)).m
    THEN IfCondition(re_if(LineAt(c)).c[1], ParseInt(re_if(LineAt(c)).c[2]).val,
                     Leaves(c, FirstEnd(c)),
                     IF HasElse(c) THEN Leaves(FirstEnd(c), CloseOf(c)) ELSE <<>>)
    ELSE WhileLoop(re_while(LineAt(c)).c[1], re_while(LineAt(c)).c[2],
                   ParseInt(re_while(LineAt(c)).c[3]).val, Leaves(c, CloseOf(c)))

\* The block opened at cursor c is closed, its lines are declare, update and
\* call lines that parse, and so does the integer of its opening line.
GoodBlock(c) ==
    /\ IsOpener(LineAt(c))
    /\ CloseOf(c) < Len(lines)
    /\ \A b \in Inside(c) : parse_statement(LineAt(b)).err = "none"
    /\ re_if(LineAt(c)).m => ParseInt(re_if(LineAt(c)).c[2]).ok
    /\ re_while(LineAt(c)).m => ParseInt(re_while(LineAt(c)).c[3]).ok

\* The number of top-level statements from cursor c on: a block counts once and
\* the count goes on after its closing line, a declare, update or call line
\* counts once, any other line does not count.
RECURSIVE TopLevelCount(_)
TopLevelCount(c) ==
    IF c >= Len(lines) THEN 0
    ELSE IF IsOpener(LineAt(c)) THEN 1 + TopLevelCount(CloseOf(c) + 1)
    ELSE IF IsStatementLine(LineAt(c)) THEN 1 + TopLevelCount(c + 1)
    ELSE TopLevelCount(c + 1)

\* C13: at a top-level declare, update or call line that parses, parse pushes
\* the statement of that line and moves to the next line; at the opening line
\* of a closed block whose lines are such lines, parse pushes one statement for
\* the block - for an if, the lines before the else line (or the closing line)
\* in order as true_branch and the lines between the else line and the closing
\* line as false_branch, empty without an else line; for a while, its lines in
\* order as body - and goes on with the line after the closing line, so no line
\* of a block is pushed as a top-level statement; and a parse that returns,
\* returns one statement per top-level statement of the source.
C13_ParseStructure ==
    /\ [][(phase = "parse" /\ i < Len(lines)) =>
            /\ (~IsOpener(LineAt(i)) /\ parse_statement(LineAt(i)).err = "none") =>
                  /\ phase' = "parse"
                  /\ statements' = Append(statements, Leaf(i))
                  /\ i' = i + 1
            /\ GoodBlock(i) =>
                  /\ phase' = "parse"
                  /\ statements' = Append(statements, BlockStatement(i))
                  /\ i' = CloseOf(i) + 1]_vars
    /\ [](phase \in {"eval", "done"} => Len(statements) = TopLevelCount(0))

\* The parse is over and has returned an if statement with two statements in
\* its true branch and one in its false branch, between a statement before the
\* block and a statement after it.
C13_Witness ==
    /\ phase = "eval"
    /\ hist = <<>>
    /\ Len(statements) = 3
    /\ statements[1].type = "VarAssign"
    /\ statements[2].type = "IfCondition"
    /\ Len(statements[2].true_branch) = 2
    /\ statements[2].true_branch[1] # statements[2].true_branch[2]
    /\ Len(statements[2].false_branch) = 1
    /\ statements[3].type = "FunctionCall"

\* The comparison a op b of the six operators of a while line.
Compare(a, op, b) ==
    \/ op = <<"=", "=">> /\ a = b
    \/ op = <<"!", "=">> /\ a # b
    \/ op = <<"<">> /\ a < b
    \/ op = <<">">> /\ a > b
    \/ op = <<"<", "=">> /\ a <= b
    \/ op = <<">", "=">> /\ a >= b

\* The states of the loop: CheckCondition when the evaluator is at the while
\* statement, RunBody when the call that runs its body is the innermost one.
CheckCondition == At("WhileLoop")
RunBody ==
    /\ phase = "eval"
    /\ Len(stack) >= 2
    /\ stack[Len(stack) - 1].k <= Len(stack[Len(stack) - 1].stmts)
    /\ stack[Len(stack) - 1].stmts[stack[Len(stack) - 1].k].type = "WhileLoop"
    /\ Top.stmts = stack[Len(stack) - 1].stmts[stack[Len(stack) - 1].k].body

\* The statement of the test recorded as hist[j], a top-level while.
LoopOf(j) == statements[hist[j].k]

\* C14: a while is executed as CheckCondition -> RunBody -> CheckCondition ...
\* -> Done.  From CheckCondition the evaluator goes to RunBody (the body as a
\* new call, the caller still at the while) when the condition holds and to
\* Done (the caller at the next statement) when it does not, or when the
\* variable is undeclared; a step in RunBody that moves the evaluation either
\* executes the next body statement or, with the body finished, returns to
\* CheckCondition of the same loop.  So after a test that held, the body
\* statements are recorded in order, all of them before anything else (a
\* panic of one of them apart), and what follows the last is the next test of
\* the same loop; after a test that failed, what follows is the statement after
\* the loop.
C14_WhileStateMachine ==
    /\ [][/\ CheckCondition =>
               IF /\ Cur.var \in DOMAIN variables
                  /\ Compare(variables[Cur.var], Cur.op, Cur.value)
               THEN /\ stack' = Append(stack, [stmts |-> Cur.body, k |-> 1])
                    /\ RunBody'
               ELSE stack' = [stack EXCEPT ![Len(stack)].k = @ + 1]
          /\ (RunBody /\ stack' # stack) =>
               IF Top.k <= Len(Top.stmts)
               THEN /\ stack' = [stack EXCEPT ![Len(stack)].k = @ + 1]
                    /\ Len(hist') = Len(hist) + 1
                    /\ ~(Last(hist').type = "WhileLoop")
               ELSE /\ stack' = SubSeq(stack, 1, Len(stack) - 1)
                    /\ hist' = hist
                    /\ phase' = "eval"
                    /\ Len(hist) < MaxSteps => CheckCondition']_vars
    /\ [](\A j \in 1..Len(hist) :
            (hist[j].type = "WhileLoop" /\ hist[j].depth = 1) =>
               IF hist[j].what = "true"
               THEN /\ \A m \in 1..Len(LoopOf(j).body) :
                          j + m <= Len(hist) =>
                             /\ hist[j + m].depth = 2
                             /\ hist[j + m].k = m
                             /\ hist[j + m].type = LoopOf(j).body[m].type
                             /\ (hist[j + m].what = "panic") => (j + m = Len(hist))
                    /\ j + Len(LoopOf(j).body) < Len(hist) =>
                          /\ hist[j + Len(LoopOf(j).body) + 1].type = "WhileLoop"
                          /\ hist[j + Len(LoopOf(j).body) + 1].depth = 1
                          /\ hist[j + Len(LoopOf(j).body) + 1].k = hist[j].k
               ELSE j < Len(hist) =>
                       /\ hist[j + 1].depth = 1
                       /\ hist[j + 1].k = hist[j].k + 1)

\* The run is over; in the last iteration of "while x < 2" the first body
\* statement took x from 1 to 2, the print after it was still executed, and
\* only then the condition was tested again and found false.
C14_Witness ==
    /\ phase = "done"
    /\ \E j \in 1..(Len(hist) - 3) :
          /\ hist[j].type = "WhileLoop"
          /\ hist[j].what = "true"
          /\ LoopOf(j).op = <<"<">>
          /\ LoopOf(j).value = 2
          /\ hist[j + 1].type = "VarUpdate"
          /\ hist[j + 1].seen = <<1>>
          /\ hist[j + 1].what = "added"
          /\ hist[j + 2].type = "FunctionCall"
          /\ hist[j + 2].what = "print"
          /\ hist[j + 3].type = "WhileLoop"
          /\ hist[j + 3].what = "false"
          /\ hist[j + 3].seen = <<2>>

\* The statement pushed last holds st at the place of the line at cursor c of
\* the block opened at cursor o: in the true branch or body for a line of the
\* first part, in the false branch for a line after the else line.
HoldsAt(pushed, o, c, st) ==
    IF c < FirstEnd(o)
    THEN (IF pushed.type = "IfCondition" THEN pushed.true_branch ELSE pushed.body)[c - o] = st
    ELSE pushed.false_branch[c - FirstEnd(o)] = st

\* The integers D for which the line is "a = b + D;": one at most, none when
\* the line does not start with "a = b + ".
UpdateOperand(l, a, b) ==
    IF IsPrefix(a \o <<" ", "=", " ">> \o b \o <<" ", "+", " ">>, l)
    THEN {D \in MinInt..MaxInt : l = UpdateLine(a, b, D)}
    ELSE {}

\* C15: the update line "a = b + D;" is parsed to VarUpdate{var: a, value: D}
\* whatever the identifier b is, at top level and inside a block; executing a
\* VarUpdate{a, D} changes no variable other than a, declares none, and where a
\* is declared and the sum is in range leaves a at its old value plus D, so b
\* is neither read nor changed.
C15_UpdateIgnoresSource ==
    /\ [][(phase = "parse" /\ i < Len(lines)) =>
            /\ \A a, b \in {X, Y} : \A D \in UpdateOperand(LineAt(i), a, b) :
                  /\ phase' = "parse"
                  /\ statements' = Append(statements, VarUpdate(a, D))
                  /\ i' = i + 1
            /\ GoodBlock(i) =>
                  \A c \in Inside(i) :
                     \A a, b \in {X, Y} : \A D \in UpdateOperand(LineAt(c), a, b) :
                        /\ phase' = "parse"
                        /\ Len(statements') = Len(statements) + 1
                        /\ HoldsAt(Last(statements'), i, c, VarUpdate(a, D))]_vars
    /\ [][At("VarUpdate") =>
            /\ DOMAIN variables' = DOMAIN variables
            /\ \A v \in DOMAIN variables : v # Cur.var => variables'[v] = variables[v]
            /\ (/\ Cur.var \in DOMAIN variables
                /\ variables[Cur.var] + Cur.value \in MinInt..MaxInt) =>
                  variables'[Cur.var] = variables[Cur.var] + Cur.value]_vars

\* "x = y + 1;" has been executed where x was 2 and y was 3: x is 3, not 4, and
\* y is still 3.
C15_Witness ==
    /\ \E c \in 1..Len(lines) : Trim(lines[c]) = UpdateLine(X, Y, 1)
    /\ hist # <<>>
    /\ Last(hist).type = "VarUpdate"
    /\ Last(hist).seen = <<2>>
    /\ variables = Insert(Insert(EmptyMap, Y, 3), X, 3)

\* The line is a call with nothing between the parentheses: "print();" or
\* "foo();".
IsEmptyCall(l) == \E name \in {PrintName, FooName} : l = CallLine(name, <<>>)

\* No call of the sequence has an empty argument list.
NoEmptyArgs(stmts) ==
    \A k \in 1..Len(stmts) : stmts[k].type = "FunctionCall" => stmts[k].args # <<>>

\* C16: a call line with an empty argument list, "name();", makes parse fail
\* fatally for every name, print included: at top level with the panic of the
\* integer conversion, and inside an if or while block with a panic of the
\* parser when parse reaches the opening line of the block; no statements are
\* returned, and no FunctionCall with an empty argument list is ever among the
\* statements of a parse, at top level or inside a block.
C16_EmptyArgsFatal ==
    /\ [][(phase = "parse" /\ i < Len(lines)) =>
            /\ IsEmptyCall(LineAt(i)) =>
                  /\ phase' = "fatal"
                  /\ fatal' = "ParseIntError"
                  /\ statements' = <<>>
            /\ (IsOpener(LineAt(i)) /\ \E c \in Inside(i) : IsEmptyCall(LineAt(c))) =>
                  /\ phase' = "fatal"
                  /\ fatal' \in ParseFatal
                  /\ statements' = <<>>]_vars
    /\ [](/\ NoEmptyArgs(statements)
          /\ \A k \in 1..Len(statements) :
                /\ statements[k].type = "IfCondition" =>
                      /\ NoEmptyArgs(statements[k].true_branch)
                      /\ NoEmptyArgs(statements[k].false_branch)
                /\ statements[k].type = "WhileLoop" => NoEmptyArgs(statements[k].body))

\* The parse has panicked on "foo();" as the first line of a block, after a
\* statement had been parsed.
C16_Witness ==
    /\ phase = "fatal"
    /\ fatal = "ParseIntError"
    /\ i >= 2
    /\ LineAt(i) = CallLine(FooName, <<>>)
    /\ IsOpener(LineAt(i - 1))

\* The lines being parsed with "print(1);" in the place of the line at cursor c.
WithPrintAt(c) == [lines EXCEPT ![c + 1] = PrintLine(<<"1">>)]

\* The run has ended at the call of an unknown function that evaluation had
\* reached: a top-level statement, or statement k of the branch an if on a
\* declared variable chose, or of the body of a while whose condition held.
ReachedUnknownCall ==
    /\ hist # <<>>
    /\ Last(hist).type = "FunctionCall"
    /\ Last(hist).what = "panic"
    /\ Last(hist).depth = Len(stack)
    /\ Last(hist).k = Top.k
    /\ Cur.type = "FunctionCall"
    /\ Cur.name # PrintName
    /\ IF Len(stack) = 1 THEN Cur = statements[Top.k]
       ELSE /\ Len(hist) > Top.k
            /\ \A m \in 1..Top.k : hist[Len(hist) - Top.k + m].depth = 2
            /\ hist[Len(hist) - Top.k].depth = 1
            /\ hist[Len(hist) - Top.k].seen # <<>>
            /\ \/ /\ hist[Len(hist) - Top.k].type = "IfCondition"
                  /\ hist[Len(hist) - Top.k].what =
                        (IF hist[Len(hist) - Top.k].seen = <<LoopOf(Len(hist) - Top.k).value>>
                         THEN "true" ELSE "false")
                  /\ BranchOf(Len(hist) - Top.k)[Top.k] = Cur
               \/ /\ hist[Len(hist) - Top.k].type = "WhileLoop"
                  /\ Compare(hist[Len(hist) - Top.k].seen[1], LoopOf(Len(hist) - Top.k).op,
                             LoopOf(Len(hist) - Top.k).value)
                  /\ LoopOf(Len(hist) - Top.k).body[Top.k] = Cur

\* C17: the name of a called function is checked only when the call is
\* executed.  Parse never fails because of a name: a top-level "foo(1);" is
\* parsed to a FunctionCall of foo, and a step of parse at a line that is, or
\* whose block holds, "foo(1);" fails exactly when it fails with "print(1);" in
\* its place.  The run ends with the panic of an unknown function only by the
\* step that executes a call of a name other than print, and then evaluation
\* had reached that call; a call in a branch that is not taken, under an if on
\* an undeclared variable or in the body of a while that runs zero times never
\* ends the run, and an evaluation that is not over is never stuck.
C17_UnknownNameOnlyWhenExecuted ==
    /\ [][(phase = "parse" /\ i < Len(lines)) =>
            /\ LineAt(i) = FooLine =>
                  /\ phase' = "parse"
                  /\ statements' = Append(statements, FunctionCall(FooName, <<1>>))
            /\ \A c \in {i} \cup (IF IsOpener(LineAt(i)) THEN Inside(i) ELSE {}) :
                  LineAt(c) = FooLine =>
                     (phase' = "fatal") = (ParseIteration(WithPrintAt(c), i).err # "none")]_vars
    /\ [][fatal' = "Unknown function" =>
            /\ At("FunctionCall")
            /\ Cur.name # PrintName]_vars
    /\ []((phase = "fatal" /\ fatal = "Unknown function") => ReachedUnknownCall)
    /\ []((phase = "eval" /\ Len(hist) < MaxSteps) => ENABLED Next)

\* The run is over without a panic although the false branch of its if, which
\* was not taken, calls foo; the true branch was run and the statement after
\* the if has printed its line.
C17_Witness ==
    /\ phase = "done"
    /\ fatal = "none"
    /\ \E j \in 1..(Len(hist) - 1) :
          /\ hist[j].type = "IfCondition"
          /\ hist[j].what = "true"
          /\ \E b \in 1..Len(LoopOf(j).false_branch) :
                /\ LoopOf(j).false_branch[b].type = "FunctionCall"
                /\ LoopOf(j).false_branch[b].name = FooName
          /\ Last(hist).depth = 1
          /\ Last(hist).what = "print"

\* Nothing closes the block opened at cursor c, its lines - all the lines up to
\* the end of input, an else line apart - are declare, update and call lines
\* that parse, and so does the integer of its opening line.
UnclosedBlock(c) ==
    /\ IsOpener(LineAt(c))
    /\ CloseOf(c) >= Len(lines)
    /\ \A b \in Inside(c) : parse_statement(LineAt(b)).err = "none"
    /\ re_if(LineAt(c)).m => ParseInt(re_if(LineAt(c)).c[2]).ok
    /\ re_while(LineAt(c)).m => ParseInt(re_while(LineAt(c)).c[3]).ok

\* C18: every step of parse that does not panic moves the line cursor forward,
\* the cursor never exceeds the number of lines by more than one, and with the
\* cursor past the last line the step of parse is its return, with the
\* statements pushed so far: a parse without panic returns after at most as
\* many steps as there are lines.  At the opening
\* line of an if or while block that nothing closes, parse takes every
\* remaining line as a line of the block, pushes the statement of the block
\* without panic and leaves the cursor past the end of input.  A top-level line
\* "}" or "} else {" is skipped without effect.
C18_CursorAdvances ==
    /\ [][(phase = "parse" /\ i < Len(lines)) =>
            /\ phase' \in {"parse", "fatal"}
            /\ phase' = "parse" => i' > i
            /\ UnclosedBlock(i) =>
                  /\ phase' = "parse"
                  /\ fatal' = "none"
                  /\ statements' = Append(statements, BlockStatement(i))
                  /\ i' = Len(lines) + 1
            /\ LineAt(i) \in {CloseLine, ElseLine} => IgnoresLine]_vars
    /\ [][(phase = "parse" /\ i >= Len(lines)) =>
            /\ phase' = "eval"
            /\ fatal' = "none"
            /\ statements' = statements]_vars
    /\ [](phase = "parse" => i <= Len(lines) + 1)

\* The parse has returned, without panic, the statement of an if block that
\* nothing closes after the statement of the line before it: the block took the
\* rest of the input and the cursor ended past the last line.
C18_Witness ==
    /\ phase = "eval"
    /\ hist = <<>>
    /\ fatal = "none"
    /\ i = Len(lines) + 1
    /\ Len(statements) = 2
    /\ statements[2].type = "IfCondition"
    /\ Len(statements[2].true_branch) = 1
    /\ \A c \in 1..Len(lines) : Trim(lines[c]) # CloseLine

\* C19: the set of declared variables starts empty and only grows.  Executing
\* a VarAssign adds its variable if it is not declared, sets it to the assigned
\* value whatever it held, and leaves every other variable as it was; no other
\* step - VarUpdate, the test of an if or of a while, a call, a return, a step
\* of the parser - adds or removes a variable.
C19_DeclaredOnlyGrows ==
    /\ [](phase \in {"start", "parse"} => variables = EmptyMap)
    /\ [][/\ DOMAIN variables \subseteq DOMAIN variables'
          /\ IF At("VarAssign")
             THEN /\ DOMAIN variables' = DOMAIN variables \cup {Cur.var}
                  /\ variables'[Cur.var] = Cur.value
                  /\ \A v \in DOMAIN variables : v # Cur.var => variables'[v] = variables[v]
             ELSE DOMAIN variables' = DOMAIN variables]_vars

\* A VarAssign of x has just been executed where x held another value and y
\* was declared: x holds the assigned value and y what it held.
C19_Witness ==
    /\ hist # <<>>
    /\ Last(hist).type = "VarAssign"
    /\ Last(hist).seen # <<>>
    /\ DOMAIN variables = {X, Y}
    /\ Last(hist).seen # <<variables[X]>>
    /\ variables[Y] = 3

====
